---- MODULE Spec2Model ----
(***************************************************************************)
(* Model of paper_calculations.ipynb: the notebook is run top to bottom,   *)
(* possibly several times, over a folder `generated` of pickle caches.     *)
(* A run ends normally or aborts on the first failing assertion/exception. *)
(* Calls into PyFitIt whose results the notebook does not inspect are kept *)
(* symbolic (smoothing results and sample sizes are inputs, the two parts  *)
(* returned by splitUnknown are the terms Known(x) and Unknown(x)).        *)
(***************************************************************************)
EXTENDS Integers, Sequences, FiniteSets, TLC

\* ------------------------------------------------------------- bounds ----
MaxRows == 1      \* rows read from one samples/sample_CN folder
IHSCount == 1     \* rows of a sample converted to IHS (500 in the notebook)
MaxExp == 2       \* files listed in the folder exp
MaxTrue == 2      \* rows of exp_true_values.csv
MaxRuns == 2      \* runs of the notebook that are followed

\* ---------------------------------------------------- program constants ----
Threshold == 15
EnergyLo == 7100
EnergyHi == 7200
MixtureSize == 5000
ComponentCount == 2

\* ------------------------------------------------------------ the data ----
Grid == {7090, 7150}            \* energies of the spectra: one outside, one inside [7100, 7200]

Val(t, v) == [t |-> t, v |-> v]
NaN == Val("nan", <<>>)
Num(x) == Val("num", <<x>>)
Str(s) == Val("str", s)
Calc(what) == Val("calc", what)

\* range(2,7) x [2,3], in loop order
GroupSeq == << <<2,2>>, <<2,3>>, <<3,2>>, <<3,3>>, <<4,2>>, <<4,3>>, <<5,2>>, <<5,3>>, <<6,2>>, <<6,3>> >>

\* the sampled parameters of samples/sample_CN
OldParams(CN) ==
  CASE CN = 2 -> {"r1", "d12", "phi1", "psi"}
    [] CN = 3 -> {"phi", "r1", "r2"}
    [] CN = 4 -> {"phi1", "phi2", "r1", "r2"}
    [] OTHER  -> {"r2", "d2", "r1", "phi2", "phi1"}

SampleFolderIHS(CN) ==
  CASE CN = 2 -> "generated/samples/sample_2_IHS_generated"
    [] CN = 3 -> "generated/samples/sample_3_IHS_generated"
    [] CN = 4 -> "generated/samples/sample_4_IHS_generated"
    [] CN = 5 -> "generated/samples/sample_5_IHS_generated"
    [] OTHER  -> "generated/samples/sample_6_IHS_generated"

\* file names are sequences of characters
ExpFiles == { <<"a", ".", "t">>, <<"b", ".", "d">> }
TrueNames == { <<"a">>, <<"b">> }
TrueCols == {"name", "CN"}

\* the element of a one-element set
Only(S) == CHOOSE x \in S : TRUE

SeqsUpTo(S, n) == UNION { [1..k -> S] : k \in 0..n }
Range(s) == { s[i] : i \in 1..Len(s) }
Injective(s) == \A i, j \in 1..Len(s) : s[i] = s[j] => i = j

Listings == { l \in SeqsUpTo(ExpFiles, MaxExp) : Injective(l) }
TrueRows == { [name |-> <<"a">>, CN |-> Num(4)], [name |-> <<"a">>, CN |-> NaN],
              [name |-> <<"b">>, CN |-> Num(6)] }
Tables == SeqsUpTo(TrueRows, MaxTrue)
\* an experimental spectrum: below the threshold everywhere, or at the threshold inside the range
Spectra == { [e \in Grid |-> Threshold - 1], [e \in Grid |-> IF e >= EnergyLo THEN Threshold ELSE Threshold - 1] }

NoBad == <<0, 0, 0>>
\* where smoothing yields an intensity that is not below the threshold: nowhere, or in
\* the first, a middle or the last pass of the loop, inside or outside the energy range
BadSpots == { NoBad, <<2, 2, 7150>>, <<4, 3, 7090>>, <<6, 3, 7150>> }
\* the same for the samples converted to IHS
BadSpotsIHS == { NoBad, <<4, 3, 7090>> }

\* variant: the extension is not removed
splitextRoot_keep(p) == p

\* os.path.splitext(f)[0]
splitextRoot(p) ==
  LET dots == { i \in 1..Len(p) : p[i] = "." }
      dotIndex == IF dots = {} THEN 0 ELSE CHOOSE i \in dots : \A j \in dots : j <= i
  IN IF dotIndex > 0 /\ \E k \in 1..(dotIndex - 1) : p[k] # "."
     THEN SubSeq(p, 1, dotIndex - 1)
     ELSE p

\* ---------------------------------------------------- sample operations ----
\* a row: parameters, spectrum; where it came from: kind, loop pass, geometry
Row(vals, sp, kind, grp, geom) ==
  [vals |-> vals, sp |-> sp, kind |-> kind, grp |-> grp, geom |-> geom]

WithCols(r, cols) ==
  [r EXCEPT !.vals = [c \in cols |-> IF c \in DOMAIN r.vals THEN r.vals[c] ELSE NaN]]

\* readSample(samples/sample_CN): n rows, the sampled parameters, unsmoothed spectra
readSample(CN, n) ==
  [cols |-> OldParams(CN),
   rows |-> [i \in 1..n |-> Row([p \in OldParams(CN) |-> Calc(<<p, "sample", CN, i>>)],
                                [e \in Grid |-> 0], "theory", <<CN, 0>>, <<"sample", CN, i>>)]]

\* sampling.convertSampleTo(data, 'IHS', 500, ...): new geometries, same parameter names
convertSampleTo(data, CN, count) ==
  [cols |-> data.cols,
   rows |-> [i \in 1..count |-> Row([p \in data.cols |-> Calc(<<p, "IHS", CN, i>>)],
                                    [e \in Grid |-> 0], "theory", <<CN, 0>>, <<"IHS", CN, i>>)]]

\* Sample.addParam(paramName, paramData)
addParam(data, name, values) ==
  [cols |-> data.cols \cup {name},
   rows |-> [i \in 1..Len(data.rows) |->
               [data.rows[i] EXCEPT !.vals = [c \in data.cols \cup {name} |->
                    IF c = name THEN values[i] ELSE data.rows[i].vals[c]]]]]

\* Sample.delParam(paramNames)
delParam(data, names) ==
  [cols |-> data.cols \ names,
   rows |-> [i \in 1..Len(data.rows) |->
               [data.rows[i] EXCEPT !.vals = [c \in data.cols \ names |-> data.rows[i].vals[c]]]]]

\* Sample.unionWith(other)
unionWith(data, other) ==
  LET cols == data.cols \cup other.cols
      all == data.rows \o other.rows
  IN IF data.cols = other.cols THEN [cols |-> cols, rows |-> all]
     ELSE [cols |-> cols, rows |-> [i \in 1..Len(all) |-> WithCols(all[i], cols)]]

\* Sample.addRow(spectrum, params)
addRow(data, sp, true) ==
  LET cols == data.cols \cup DOMAIN true
      new == Row([c \in cols |-> IF c \in DOMAIN true THEN true[c] ELSE NaN], sp, "exp", <<0, 0>>, <<"exp", 0, 0>>)
  IN IF cols = data.cols THEN [cols |-> cols, rows |-> Append(data.rows, new)]
     ELSE [cols |-> cols,
           rows |-> Append([i \in 1..Len(data.rows) |-> WithCols(data.rows[i], cols)], new)]

\* Sample.limit(energyRange)
limit(data, lo, hi) ==
  [cols |-> data.cols,
   rows |-> [i \in 1..Len(data.rows) |->
               [data.rows[i] EXCEPT !.sp = [e \in { x \in DOMAIN data.rows[i].sp : lo <= x /\ x <= hi }
                                              |-> data.rows[i].sp[e]]]]]

\* smoothLib.smoothDataFrame: the smoothed spectra of one (CN, valence) group
smoothDataFrame(data, CN, valence, bad) ==
  [cols |-> data.cols,
   rows |-> [i \in 1..Len(data.rows) |->
               [data.rows[i] EXCEPT !.sp = [e \in Grid |->
                    IF bad = <<CN, valence, e>> THEN Threshold ELSE Threshold - 1]]]]

\* variant: the comparison is not strict
SpectraAssert_inclusive(data) ==
  \A i \in 1..Len(data.rows) : \A e \in DOMAIN data.rows[i].sp : data.rows[i].sp[e] <= Threshold

\* assert np.all(data.spectra.values<15)
SpectraAssert(data) ==
  \A i \in 1..Len(data.rows) : \A e \in DOMAIN data.rows[i].sp : data.rows[i].sp[e] < Threshold

\* calcDist: mean and standard deviation of the distances to O in the geometry of each row
calcDist(data, what) == [i \in 1..Len(data.rows) |-> Calc(<<what>> \o data.rows[i].geom)]

\* variant: the sampled parameters are not deleted
GroupData_keepOld(CN, valence, n, bad, ihs) ==
  Only({ Only({ [cols |-> d6.cols,
                 rows |-> [i \in 1..Len(d6.rows) |-> [d6.rows[i] EXCEPT !.grp = <<CN, valence>>]]] :
           d6 \in { smoothDataFrame(d4, CN, valence, bad) :
             d4 \in { addParam(d3, "valence", [i \in 1..Len(d3.rows) |-> Num(valence)]) :
               d3 \in { addParam(d2, "CN", [i \in 1..Len(d2.rows) |-> Num(CN)]) :
                 d2 \in { addParam(d1, "stdDist", calcDist(d1, "stdDist")) :
                   d1 \in { addParam(data, "FeODist", calcDist(data, "FeODist")) } } } } } }) :
    data \in { IF ihs THEN convertSampleTo(readSample(CN, n), CN, IHSCount)
               ELSE readSample(CN, n) } })

\* one pass of the loop body over (CN, valence), up to the assertion
GroupData(CN, valence, n, bad, ihs) ==
  Only({ Only({ Only({ [cols |-> d6.cols,
                 rows |-> [i \in 1..Len(d6.rows) |-> [d6.rows[i] EXCEPT !.grp = <<CN, valence>>]]] :
           d6 \in { smoothDataFrame(d5, CN, valence, bad) :
             d5 \in { delParam(d4, oldParams) :
               d4 \in { addParam(d3, "valence", [i \in 1..Len(d3.rows) |-> Num(valence)]) :
                 d3 \in { addParam(d2, "CN", [i \in 1..Len(d2.rows) |-> Num(CN)]) :
                   d2 \in { addParam(d1, "stdDist", calcDist(d1, "stdDist")) :
                     d1 \in { addParam(data, "FeODist", calcDist(data, "FeODist")) } } } } } } }) :
         oldParams \in { data.cols } }) :
    data \in { IF ihs THEN convertSampleTo(readSample(CN, n), CN, IHSCount)
               ELSE readSample(CN, n) } })

\* data.addParam(paramName='name', ...)
NameGroup(data, CN, valence) ==
  addParam(data, "name", [i \in 1..Len(data.rows) |-> Str(<<"cn", CN, "v", valence, "_", i - 1>>)])

NoData == [cols |-> {}, rows |-> <<>>]

\* ------------------------------------------------------ the generated files ----
DataInitial == "generated/data_initial.pkl"
DataInitialIHS == "generated/data_initial_IHS_generated.pkl"
DataPkl == "generated/data.pkl"
DataIHS == "generated/data_IHS_gen.pkl"
MixData == "generated/mix_data.pkl"
MixDataIHS == "generated/mix_data_IHS_generated.pkl"
MixCsv == "generated/mix_data.csv"
MixCsvIHS == "generated/mix_data_IHS_generated.csv"

\* writing a file creates or replaces it; r is the run that writes
WriteFile(fs, f, vals, r) ==
  [g \in DOMAIN fs \cup {f} |-> IF g = f THEN [vals |-> vals, run |-> r] ELSE fs[g]]

\* ------------------------------------------------------------ loadSpectra ----
\* the loop over CN in range(2,7) and valence in [2,3], from its k-th pass on
RECURSIVE TheoryLoop(_, _, _, _, _, _)
TheoryLoop(k, acc, n, bad, ihs, r) ==
  IF k > Len(GroupSeq) \/ acc.st # "ok" THEN acc
  ELSE LET CN == GroupSeq[k][1]
           valence == GroupSeq[k][2]
       IN Only({ IF ~SpectraAssert(data)
                 THEN [st |-> "abort", all_data |-> acc.all_data, files |-> fs]
                 ELSE Only({ TheoryLoop(k + 1,
                               [st |-> "ok",
                                all_data |-> IF acc.all_data = NoData THEN named
                                             ELSE unionWith(acc.all_data, named),
                                files |-> fs], n, bad, ihs, r) :
                             named \in { NameGroup(data, CN, valence) } }) :
                 data \in { GroupData(CN, valence, n, bad, ihs) },
                 fs \in { IF ihs THEN WriteFile(acc.files, SampleFolderIHS(CN), <<>>, r)
                          ELSE acc.files } })

\* np.where(trueParams['name'].to_numpy() == name)[0]
Matches(table, name) == { i \in 1..Len(table) : table[i].name = name }

\* variant: the assertion only asks for a match
MatchAssert_atLeastOne(i) == Cardinality(i) >= 1

\* assert len(i) == 1
MatchAssert(i) == Cardinality(i) = 1

\* the dictionary `true` built from the row i[0] of the table
TrueDict(row) ==
  [c \in { c \in TrueCols : c = "name" \/ row[c] # NaN } |->
     IF c = "name" THEN Str(row.name) ELSE row[c]]

\* the loop over exp_files, from its k-th pass on
RECURSIVE ExpLoop(_, _, _)
ExpLoop(k, acc, input) ==
  IF k > Len(input.listing) \/ acc.st # "ok" THEN acc
  ELSE LET f == input.listing[k]
           name == splitextRoot(f)
           names == Append(acc.names, name)
           sp == input.expSp[f]
           i == Matches(input.table, name)
           first == CHOOSE j \in i : \A m \in i : j <= m
       IN IF Cardinality(i) > 0 /\ ~MatchAssert(i)
          THEN [st |-> "abort", all_data |-> acc.all_data, names |-> names]
          ELSE ExpLoop(k + 1,
                 [st |-> "ok",
                  all_data |-> addRow(acc.all_data, sp,
                                 IF Cardinality(i) > 0 THEN TrueDict(input.table[first])
                                 ELSE [c \in {"name"} |-> Str(name)]),
                  names |-> names], input)

\* loadSpectra(energyRange, convertToIHS): status, returned pair, files after the call
loadSpectra(lo, hi, ihs, input, fs, r) ==
  Only({ IF th.st # "ok"
         THEN [st |-> "abort", why |-> "spectra", data |-> NoData, names |-> <<>>, files |-> th.files]
         ELSE Only({ IF ex.st # "ok"
                     THEN [st |-> "abort", why |-> "match", data |-> NoData, names |-> <<>>,
                           files |-> th.files]
                     ELSE [st |-> "ok", why |-> "", data |-> limit(ex.all_data, lo, hi),
                           names |-> ex.names, files |-> th.files] :
                     ex \in { ExpLoop(1, [st |-> "ok", all_data |-> th.all_data, names |-> <<>>],
                                      input) } }) :
         th \in { TheoryLoop(1, [st |-> "ok", all_data |-> NoData, files |-> fs],
                             input.n, IF ihs THEN input.bad2 ELSE input.bad1, ihs, r) } })

\* ------------------------------------------------------ the notebook state ----
VARIABLES
  files,    \* the folder generated: file name -> [vals, run of the writer]
  mem,      \* the kernel's variables
  pc,       \* the cell to execute next; "idle", "done", "aborted" between runs
  run,      \* number of the current run
  prev,     \* how the previous run ended
  trace,    \* the calls made so far in the current run
  inp,      \* the inputs read by loadSpectra in the current run
  why       \* what aborted the current run

vars == <<files, mem, pc, run, prev, trace, inp, why>>

VarNames == {"singleComponentData", "exp_spectra_names", "singleComponentDataIHSgen",
             "exp_sample", "mixtureData", "mixtureDataIHSgen"}

Unset == [kind |-> "unset"]
Sample(ds, r) == [kind |-> "sample", data |-> ds, descr |-> FALSE, run |-> r]
Names(ns, r) == [kind |-> "names", names |-> ns, run |-> r]
Part(which, x, r) == [kind |-> "part", part |-> which, of |-> x, run |-> r]

label_names == <<"CN", "FeODist", "stdDist", "valence">>

\* the columns that calc_descriptors needs from descriptor.addDescriptors, and the two it adds
DescriptorCols == <<"Pit_e", "Pit_i", "WL_e", "WL_i", "Pit_e-WL_e", "WL-Pit_slope">>

RECURSIVE AddCols(_, _)
AddCols(data, cs) ==
  IF cs = <<>> THEN data
  ELSE AddCols(addParam(data, Head(cs), [i \in 1..Len(data.rows) |-> Calc(<<Head(cs)>>)]), Tail(cs))

\* calc_descriptors(sample, usePcaPrebuildData, pcaPrebuildDataFile)
calc_descriptors(x, r) ==
  IF x.kind = "sample"
  THEN [kind |-> "sample", data |-> AddCols(x.data, DescriptorCols), descr |-> TRUE, run |-> r]
  ELSE [kind |-> "described", of |-> x, run |-> r]

\* mixture.generateMixtureOfSample(size=5000, componentCount=2, sample=..., label_names=...)
generateMixtureOfSample(x, r) ==
  [kind |-> "mixture", size |-> MixtureSize, componentCount |-> ComponentCount,
   sample |-> x, labels |-> label_names, run |-> r]

Event(cell, op, what, r, part) == [cell |-> cell, op |-> op, what |-> what, run |-> r, part |-> part]

Step(cell, op, ihs, file, v1, v2) ==
  [cell |-> cell, op |-> op, ihs |-> ihs, file |-> file, v1 |-> v1, v2 |-> v2]

Assign2(m, v1, x1, v2, x2) ==
  [v \in DOMAIN m |-> IF v = v1 THEN x1 ELSE IF v = v2 THEN x2 ELSE m[v]]

PartOf(x) == IF x.kind = "part" THEN x.part ELSE IF x.kind = "sample" THEN "whole" ELSE x.kind

\* one statement of a cell, executed in context c = [st, why, files, mem, trace]
Exec(s, c, input, r) ==
  CASE s.op = "loadSpectra" ->
         Only({ IF res.st # "ok"
                THEN [c EXCEPT !.st = "abort", !.why = res.why, !.files = res.files,
                               !.trace = Append(@, Event(s.cell, s.op, s.v1, r, ""))]
                ELSE [c EXCEPT !.files = res.files,
                               !.trace = Append(@, Event(s.cell, s.op, s.v1, r, "")),
                               !.mem = Assign2(@, s.v1, Sample(res.data, r),
                                               s.v2, Names(res.names, r))] :
                res \in { loadSpectra(EnergyLo, EnergyHi, s.ihs, input, c.files, r) } })
    [] s.op = "load_pkl" ->
         IF s.file \notin DOMAIN c.files
         THEN [c EXCEPT !.st = "abort", !.why = "missing",
                        !.trace = Append(@, Event(s.cell, s.op, s.file, r, ""))]
         ELSE LET f == c.files[s.file]
              IN [c EXCEPT !.trace = Append(@, Event(s.cell, s.op, s.file, f.run, "")),
                           !.mem = Assign2(@, s.v1, f.vals[1],
                                           s.v2, IF Len(f.vals) >= 2 THEN f.vals[2] ELSE Unset)]
    [] s.op = "save_pkl" ->
         [c EXCEPT !.trace = Append(@, Event(s.cell, s.op, s.file, r, "")),
                   !.files = WriteFile(@, s.file,
                               IF s.v2 = "" THEN <<c.mem[s.v1]>> ELSE <<c.mem[s.v1], c.mem[s.v2]>>, r)]
    [] s.op = "to_csv" ->
         [c EXCEPT !.trace = Append(@, Event(s.cell, s.op, s.file, r, "")),
                   !.files = WriteFile(@, s.file, <<>>, r)]
    [] s.op = "calc_descriptors" ->
         [c EXCEPT !.trace = Append(@, Event(s.cell, s.op, s.v1, r, PartOf(c.mem[s.v1]))),
                   !.mem = Assign2(@, s.v1, calc_descriptors(c.mem[s.v1], r), "_", Unset)]
    [] s.op = "splitUnknown" ->
         [c EXCEPT !.trace = Append(@, Event(s.cell, s.op, s.v1, r, PartOf(c.mem[s.v1]))),
                   !.mem = Assign2(@, s.v1, Part("known", c.mem[s.v1], r),
                                   s.v2, Part("unknown", c.mem[s.v1], r))]
    [] s.op = "generateMixtureOfSample" ->
         [c EXCEPT !.trace = Append(@, Event(s.cell, s.op, s.v1, r, PartOf(c.mem[s.v1]))),
                   !.mem = Assign2(@, s.v2, generateMixtureOfSample(c.mem[s.v1], r), "_", Unset)]
    [] OTHER ->   \* calls that only read: getQuality, descriptor_quality
         [c EXCEPT !.trace = Append(@, Event(s.cell, s.op, s.v1, r, PartOf(c.mem[s.v1])))]

RECURSIVE RunSteps(_, _, _, _)
RunSteps(steps, c, input, r) ==
  IF steps = <<>> \/ c.st # "ok" THEN c
  ELSE Only({ RunSteps(Tail(steps), d, input, r) : d \in { Exec(Head(steps), c, input, r) } })

\* ------------------------------------------------------------- the cells ----
\* variant: the two pickles are loaded into each other's variable
Cell8LoadSteps_swapped ==
  << Step(8, "load_pkl", FALSE, DataInitialIHS, "singleComponentData", "exp_spectra_names"),
     Step(8, "load_pkl", FALSE, DataInitial, "singleComponentDataIHSgen", "_") >>

Cell8LoadSteps ==
  << Step(8, "load_pkl", FALSE, DataInitial, "singleComponentData", "exp_spectra_names"),
     Step(8, "load_pkl", FALSE, DataInitialIHS, "singleComponentDataIHSgen", "_") >>

\* variant: the first dataset is saved before the second one is computed
Cell8ComputeSteps_saveEarly ==
  << Step(8, "loadSpectra", FALSE, "", "singleComponentData", "exp_spectra_names"),
     Step(8, "save_pkl", FALSE, DataInitial, "singleComponentData", "exp_spectra_names"),
     Step(8, "loadSpectra", TRUE, "", "singleComponentDataIHSgen", "_"),
     Step(8, "save_pkl", FALSE, DataInitialIHS, "singleComponentDataIHSgen", "exp_spectra_names") >>

Cell8ComputeSteps ==
  << Step(8, "loadSpectra", FALSE, "", "singleComponentData", "exp_spectra_names"),
     Step(8, "loadSpectra", TRUE, "", "singleComponentDataIHSgen", "_"),
     Step(8, "save_pkl", FALSE, DataInitial, "singleComponentData", "exp_spectra_names"),
     Step(8, "save_pkl", FALSE, DataInitialIHS, "singleComponentDataIHSgen", "exp_spectra_names") >>

Cell13LoadSteps ==
  << Step(13, "load_pkl", FALSE, DataPkl, "singleComponentData", "_"),
     Step(13, "load_pkl", FALSE, DataIHS, "singleComponentDataIHSgen", "_") >>

\* variant: the descriptors of the IHS dataset are computed but never saved
Cell13ComputeSteps_oneSave ==
  << Step(13, "calc_descriptors", FALSE, "", "singleComponentData", ""),
     Step(13, "calc_descriptors", FALSE, "", "singleComponentDataIHSgen", ""),
     Step(13, "save_pkl", FALSE, DataPkl, "singleComponentData", "exp_spectra_names") >>

Cell13ComputeSteps ==
  << Step(13, "calc_descriptors", FALSE, "", "singleComponentData", ""),
     Step(13, "calc_descriptors", FALSE, "", "singleComponentDataIHSgen", ""),
     Step(13, "save_pkl", FALSE, DataPkl, "singleComponentData", "exp_spectra_names"),
     Step(13, "save_pkl", FALSE, DataIHS, "singleComponentDataIHSgen", "exp_spectra_names") >>

\* variant: only the IHS dataset is split
Cell13SplitSteps_onlyIHS ==
  << Step(13, "splitUnknown", FALSE, "", "singleComponentDataIHSgen", "_") >>

Cell13SplitSteps ==
  << Step(13, "splitUnknown", FALSE, "", "singleComponentData", "exp_sample"),
     Step(13, "splitUnknown", FALSE, "", "singleComponentDataIHSgen", "_") >>

Cell17Steps ==
  << Step(17, "getQuality", FALSE, "", "singleComponentDataIHSgen", "") >>

Cell21LoadSteps ==
  << Step(21, "load_pkl", FALSE, MixData, "mixtureData", "_"),
     Step(21, "load_pkl", FALSE, MixDataIHS, "mixtureDataIHSgen", "_") >>

Cell21ComputeSteps ==
  << Step(21, "generateMixtureOfSample", FALSE, "", "singleComponentData", "mixtureData"),
     Step(21, "generateMixtureOfSample", FALSE, "", "singleComponentDataIHSgen", "mixtureDataIHSgen"),
     Step(21, "save_pkl", FALSE, MixData, "mixtureData", ""),
     Step(21, "save_pkl", FALSE, MixDataIHS, "mixtureDataIHSgen", ""),
     Step(21, "to_csv", FALSE, MixCsv, "mixtureData", ""),
     Step(21, "to_csv", FALSE, MixCsvIHS, "mixtureDataIHSgen", "") >>

Cell25Steps ==
  << Step(25, "descriptor_quality", FALSE, "", "mixtureData", ""),
     Step(25, "descriptor_quality", FALSE, "", "exp_sample", "") >>

\* variant: the guard of cell 13 tests a misspelt file name
Cell13Guard_typo == "generated/data.pk" \in DOMAIN files

\* os.path.exists of the three guards
Cell8Guard == DataInitial \in DOMAIN files
Cell13Guard == DataPkl \in DOMAIN files
Cell21Guard == MixData \in DOMAIN files

NoInput == [n |-> 0, bad1 |-> NoBad, bad2 |-> NoBad, listing |-> <<>>, expSp |-> <<>>, table |-> <<>>]

\* exp files and true values for which the loop over exp_files passes its assertion
ExpPasses(l, t) == \A k \in 1..Len(l) : Cardinality(Matches(t, splitextRoot(l[k]))) <= 1

\* the contents of samples, exp and exp_true_values.csv met by one run; what is
\* read after the failing assertion is left out
Inputs ==
  [n : 1..MaxRows, bad1 : BadSpots \ {NoBad}, bad2 : {NoBad}, listing : {<<>>}, expSp : {<<>>}, table : {<<>>}]
  \cup UNION { { i \in [n : 1..MaxRows, bad1 : {NoBad}, bad2 : BadSpotsIHS, listing : {l},
                        expSp : [Range(l) -> Spectra], table : Tables] :
                 i.bad2 = NoBad \/ ExpPasses(l, i.table) } : l \in Listings }

Init ==
  /\ files = <<>>
  /\ mem = [v \in VarNames |-> Unset]
  /\ pc = "idle"
  /\ run = 0
  /\ prev = "none"
  /\ trace = <<>>
  /\ inp = NoInput
  /\ why = ""

\* Kernel restart and "Run All"
StartRun ==
  /\ pc \in {"idle", "done", "aborted"}
  /\ run < MaxRuns
  /\ run' = run + 1
  /\ prev' = pc
  /\ pc' = "cell8"
  /\ mem' = [v \in VarNames |-> Unset]
  /\ trace' = <<>>
  /\ inp' = NoInput
  /\ why' = ""
  /\ UNCHANGED files

\* a cell executes its statements; the first failure ends the run
RunCell(steps, input, next) ==
  \E c \in { RunSteps(steps, [st |-> "ok", why |-> "", files |-> files, mem |-> mem,
                                 trace |-> trace], input, run) } :
     /\ files' = c.files
     /\ mem' = c.mem
     /\ trace' = c.trace
     /\ why' = c.why
     /\ pc' = IF c.st = "ok" THEN next ELSE "aborted"
     /\ UNCHANGED <<run, prev>>

Cell8Load ==
  /\ pc = "cell8"
  /\ Cell8Guard
  /\ RunCell(Cell8LoadSteps, NoInput, "cell13")
  /\ UNCHANGED inp

Cell8Compute ==
  /\ pc = "cell8"
  /\ ~Cell8Guard
  /\ \E input \in Inputs :
       /\ RunCell(Cell8ComputeSteps, input, "cell13")
       /\ inp' = input

Cell13Load ==
  /\ pc = "cell13"
  /\ Cell13Guard
  /\ RunCell(Cell13LoadSteps \o Cell13SplitSteps, NoInput, "cell17")
  /\ UNCHANGED inp

Cell13Compute ==
  /\ pc = "cell13"
  /\ ~Cell13Guard
  /\ RunCell(Cell13ComputeSteps \o Cell13SplitSteps, NoInput, "cell17")
  /\ UNCHANGED inp

Cell17 ==
  /\ pc = "cell17"
  /\ RunCell(Cell17Steps, NoInput, "cell21")
  /\ UNCHANGED inp

Cell21Load ==
  /\ pc = "cell21"
  /\ Cell21Guard
  /\ RunCell(Cell21LoadSteps, NoInput, "cell25")
  /\ UNCHANGED inp

Cell21Compute ==
  /\ pc = "cell21"
  /\ ~Cell21Guard
  /\ RunCell(Cell21ComputeSteps, NoInput, "cell25")
  /\ UNCHANGED inp

Cell25 ==
  /\ pc = "cell25"
  /\ RunCell(Cell25Steps, NoInput, "done")
  /\ UNCHANGED inp

Next ==
  \/ StartRun
  \/ Cell8Load
  \/ Cell8Compute
  \/ Cell13Load
  \/ Cell13Compute
  \/ Cell17
  \/ Cell21Load
  \/ Cell21Compute
  \/ Cell25

Spec == Init /\ [][Next]_vars

\* ------------------------------------------------------------ properties ----
StageCells == {8, 13, 21}
StagePc(s) == CASE s = 8 -> "cell8" [] s = 13 -> "cell13" [] OTHER -> "cell21"
GuardFile(s) == CASE s = 8 -> DataInitial [] s = 13 -> DataPkl [] OTHER -> MixData
SecondFile(s) == CASE s = 8 -> DataInitialIHS [] s = 13 -> DataIHS [] OTHER -> MixDataIHS
ComputeOps == {"loadSpectra", "calc_descriptors", "generateMixtureOfSample"}
WriteOps == {"save_pkl", "to_csv"}
TheoryCols == {"FeODist", "stdDist", "CN", "valence", "name"}

\* cell 8 has just returned from its compute branch
Computed8 == pc = "cell13" /\ Len(trace) > 0 /\ trace[1].op = "loadSpectra"
\* the two datasets returned by loadSpectra in that case
Returned == mem["singleComponentData"].data
ReturnedIHS == mem["singleComponentDataIHSgen"].data
MatchCount(k) == Cardinality({ i \in 1..Len(inp.table) : inp.table[i].name = splitextRoot(inp.listing[k]) })

C1_StageStep(s) ==
  (pc = StagePc(s) /\ pc' # pc) =>
    LET new == SubSeq(trace', Len(trace) + 1, Len(trace'))
    IN IF GuardFile(s) \in DOMAIN files
       THEN /\ files' = files
            /\ \A i \in 1..Len(new) : new[i].op \notin ComputeOps \cup WriteOps
            /\ \E i \in 1..Len(new) : new[i].op = "load_pkl" /\ new[i].what = GuardFile(s)
       ELSE /\ \A i \in 1..Len(new) : new[i].op # "load_pkl"
            /\ Len(new) > 0 /\ new[1].op \in ComputeOps
            /\ pc' # "aborted" =>
                 /\ GuardFile(s) \in DOMAIN files' /\ files'[GuardFile(s)].run = run
                 /\ SecondFile(s) \in DOMAIN files' /\ files'[SecondFile(s)].run = run
                 /\ \E i \in 1..Len(new) : new[i].op = "save_pkl" /\ new[i].what = GuardFile(s)
                 /\ \A i, j \in 1..Len(new) :
                      (new[i].op \in ComputeOps /\ new[j].op \in WriteOps) => i < j

\* C1: each cached stage (cells 8, 13, 21) loads and neither computes nor writes when its
\* guard file exists as the stage starts, and otherwise computes first and then saves its
\* cache files, so that the guard file exists when the stage has completed.
C1_CacheRule == [][\A s \in StageCells : C1_StageStep(s)]_vars

\* a later run in which all three stages took their load branch
C1_Witness ==
  /\ pc = "done" /\ run >= 2
  /\ \A s \in StageCells : \E i \in 1..Len(trace) : trace[i].op = "load_pkl" /\ trace[i].what = GuardFile(s)

\* C2 as stated: a run gets past loadSpectra only if every listed exp file has exactly
\* one row of the true-values table with its name.
C2_ExactlyOneRow ==
  Computed8 => \A k \in 1..Len(inp.listing) : MatchCount(k) = 1

\* C2 amended: loadSpectra requires at most one row per exp file: a run gets past
\* loadSpectra only if no listed file has more than one matching row, a file with more
\* than one matching row aborts the run, and a file with no matching row does not.
C2_AtMostOneRow ==
  /\ Computed8 => \A k \in 1..Len(inp.listing) : MatchCount(k) <= 1
  /\ (\E k \in 1..Len(inp.listing) : MatchCount(k) > 1) => (pc = "aborted" /\ why = "match")
  /\ (pc = "aborted" /\ why = "match") => \E k \in 1..Len(inp.listing) : MatchCount(k) > 1

\* loadSpectra returned although a listed exp file has no row in the table
C2_Witness ==
  Computed8 /\ \E k \in 1..Len(inp.listing) : MatchCount(k) = 0

AllBelow(data, kinds) ==
  \A i \in 1..Len(data.rows) :
    data.rows[i].kind \in kinds => \A e \in DOMAIN data.rows[i].sp : data.rows[i].sp[e] < Threshold

\* C3 as stated: every spectrum of a dataset returned by loadSpectra has all of its
\* intensities below 15.
C3_AllSpectraBelow ==
  Computed8 => AllBelow(Returned, {"theory", "exp"}) /\ AllBelow(ReturnedIHS, {"theory", "exp"})

\* C3 amended: the assertion covers the smoothed theoretical spectra only: a theoretical
\* intensity that is not below 15 aborts the run, so every theoretical spectrum of a
\* returned dataset is below 15; the experimental spectra are added unchecked.
C3_TheoryBelow ==
  /\ Computed8 => AllBelow(Returned, {"theory"}) /\ AllBelow(ReturnedIHS, {"theory"})
  /\ (inp.bad1 # NoBad \/ inp.bad2 # NoBad) => (pc = "aborted" /\ why = "spectra")

\* loadSpectra returned a dataset holding an experimental spectrum that reaches 15
C3_Witness ==
  /\ Computed8
  /\ \E i \in 1..Len(Returned.rows) :
       /\ Returned.rows[i].kind = "exp"
       /\ \E e \in DOMAIN Returned.rows[i].sp : Returned.rows[i].sp[e] >= Threshold
  /\ \E i \in 1..Len(Returned.rows) : Returned.rows[i].kind = "theory"

\* C4: a failed assertion of loadSpectra ends the run: no later cell has executed, no
\* pickle has been saved, neither data_initial file exists, and the next run's cell 8
\* takes its compute branch again.
C4_AbortLeavesNoCache ==
  /\ []((pc = "aborted" /\ why \in {"spectra", "match"}) =>
          /\ \A i \in 1..Len(trace) : trace[i].cell = 8 /\ trace[i].op = "loadSpectra"
          /\ DataInitial \notin DOMAIN files
          /\ DataInitialIHS \notin DOMAIN files)
  /\ [][(pc = "cell8" /\ prev = "aborted" /\ pc' # pc) =>
          (Len(trace') > 0 /\ trace'[1].op = "loadSpectra")]_vars

\* the run after an aborted one computed the initial data again and got through cell 8
C4_Witness ==
  pc = "cell13" /\ prev = "aborted" /\ Computed8

CacheFiles == { GuardFile(s) : s \in StageCells } \cup { SecondFile(s) : s \in StageCells }

C6_TopToBottom ==
  /\ \A i, j \in 1..Len(trace) : i < j => trace[i].cell <= trace[j].cell
  /\ \A i, j \in 1..Len(trace) :
       i # j => ~(trace[i].op = trace[j].op /\ trace[i].what = trace[j].what)
  /\ \A j \in 1..Len(trace) :
       trace[j].op = "generateMixtureOfSample" =>
         /\ trace[j].part = "known"
         /\ \E i \in 1..(j - 1) : trace[i].op = "splitUnknown" /\ trace[i].what = trace[j].what
         /\ \E i \in 1..(j - 1) : trace[i].cell = 13 /\ trace[i].op \in {"calc_descriptors", "load_pkl"}
  /\ \A v \in {"mixtureData", "mixtureDataIHSgen"} :
       mem[v].kind = "mixture" =>
         /\ mem[v].sample.kind = "part"
         /\ mem[v].sample.part = "known"
         /\ mem[v].sample.of.kind = "sample"
         /\ mem[v].sample.of.descr

\* the mixtures have just been generated in this run
C6_Witness ==
  /\ pc = "cell25"
  /\ mem["mixtureData"].kind = "mixture" /\ mem["mixtureData"].run = run
  /\ \E j \in 1..Len(trace) : trace[j].op = "generateMixtureOfSample"

AllOldParams == UNION { OldParams(cn) : cn \in 2..6 }

C9_Theory(data) ==
  /\ \A i \in 1..Len(data.rows) :
       data.rows[i].kind = "theory" =>
         LET r == data.rows[i]
         IN /\ DOMAIN r.vals = TheoryCols
            /\ DOMAIN r.vals \cap AllOldParams = {}
            /\ r.grp[1] \in 2..6 /\ r.grp[2] \in {2, 3}
            /\ r.vals["CN"] = Num(r.grp[1])
            /\ r.vals["valence"] = Num(r.grp[2])
            /\ r.vals["name"].t = "str"
            /\ r.vals["name"].v[2] = r.grp[1] /\ r.vals["name"].v[4] = r.grp[2]
            /\ r.vals["FeODist"].t = "calc" /\ r.vals["stdDist"].t = "calc"
  /\ { data.rows[i].grp : i \in { j \in 1..Len(data.rows) : data.rows[j].kind = "theory" } }
       = { <<cn, v>> : cn \in 2..6, v \in {2, 3} }

\* C9: in a dataset returned by loadSpectra every theoretical row carries exactly FeODist,
\* stdDist, CN, valence and name, none of the sampled parameters, CN and valence of the
\* loop pass it came from, and all 10 (CN, valence) groups are present.
C9_CommonParams ==
  Computed8 => C9_Theory(Returned) /\ C9_Theory(ReturnedIHS)

\* loadSpectra returned both datasets, with theoretical rows of the first and the last group
C9_Witness ==
  /\ Computed8
  /\ \E i, j \in 1..Len(ReturnedIHS.rows) :
       ReturnedIHS.rows[i].grp = <<2, 2>> /\ ReturnedIHS.rows[j].grp = <<6, 3>>

\* the file name without its extension: what is left of ".x" at the end
NameOf(f) == CHOOSE s \in { SubSeq(f, 1, k) : k \in 0..Len(f) } : \E x \in Range(f) : f = s \o <<".", x>>

C10_Exp(data, nTheory) ==
  LET l == inp.listing
  IN /\ Len(data.rows) = nTheory + Len(l)
     /\ \A i \in 1..nTheory : data.rows[i].kind = "theory"
     /\ \A k \in 1..Len(l) :
          LET r == data.rows[nTheory + k]
          IN /\ r.kind = "exp"
             /\ r.vals["name"] = Str(NameOf(l[k]))
             /\ \A e \in DOMAIN r.sp : r.sp[e] = inp.expSp[l[k]][e]
             /\ (\A i \in 1..Len(inp.table) : inp.table[i].name # NameOf(l[k])) =>
                  \A c \in DOMAIN r.vals \ {"name"} : r.vals[c] = NaN

\* C10: every file listed in exp contributes one row, after the theoretical rows and in
\* listing order, and one entry of exp_spectra_names, the file name without extension;
\* a file without a row in the true-values table is added with its name only.
C10_AllExpTaken ==
  Computed8 =>
    /\ mem["exp_spectra_names"].names = [k \in 1..Len(inp.listing) |-> NameOf(inp.listing[k])]
    /\ C10_Exp(Returned, Len(GroupSeq) * inp.n)
    /\ C10_Exp(ReturnedIHS, Len(GroupSeq) * IHSCount)

\* two files were listed and one of them has no row in the true-values table
C10_Witness ==
  /\ Computed8
  /\ Len(inp.listing) = 2
  /\ \E k \in 1..2 : \A i \in 1..Len(inp.table) : inp.table[i].name # NameOf(inp.listing[k])
  /\ Len(inp.table) > 0

\* C11: starting from an empty generated folder, whenever a cached stage takes its
\* load branch every file it loads exists: the second file of a pair is present
\* whenever the first (the only one the guard tests) is, no load_pkl has failed on
\* a missing file, and every file a run has loaded is in the folder.
C11_LoadedFilesExist ==
  /\ \A s \in StageCells : GuardFile(s) \in DOMAIN files => SecondFile(s) \in DOMAIN files
  /\ why # "missing"
  /\ \A i \in 1..Len(trace) : trace[i].op = "load_pkl" => trace[i].what \in DOMAIN files

\* a later run has taken the load branch of all three stages and read each second file
C11_Witness ==
  /\ run > 1
  /\ pc = "cell25"
  /\ \A s \in StageCells :
       \E i \in 1..Len(trace) :
          /\ trace[i].cell = s /\ trace[i].op = "load_pkl" /\ trace[i].what = SecondFile(s)
          /\ trace[i].run < run

====
